---- MODULE Spec2Model ----
(***************************************************************************)
(* A model of concat_files.py: enumeration of a directory tree through a   *)
(* path filter, partition of the file list into num_files index ranges,    *)
(* one writer task per range run by a process pool, and the top-level      *)
(* script that wraps the whole in a try/except.                            *)
(*                                                                         *)
(* Paths are sequences of segments (Path.parts); a segment is a sequence   *)
(* of characters, where a multi-letter string stands for a run of          *)
(* characters holding no dot.  File contents are sequences of chunks, one  *)
(* chunk per write call (or, for a source file, one chunk of text).        *)
(***************************************************************************)
EXTENDS Integers, Sequences, FiniteSets, TLC

\* Largest number of output files asked for on the command line.
MaxN == 3
\* Number of worker processes of the pool (the host's parallelism).
PoolSize == 2
\* Number of times the tool is run in a row over the same directories.
MaxRuns == 2

VARIABLES
    root_state,       \* the root directory: "ok", "missing" or "unreadable"
    under_root,       \* whether the output directory lies under the root
    num_files,        \* args.number_of_files
    ignore_patterns,  \* set of segments
    file_extensions,  \* set of suffixes
    output_format,    \* "txt" or "md"
    undecodable,      \* the source files whose read_text raises
    unlexable,        \* the source files whose highlighting raises
    unwritable,       \* the ordinals of the output files whose open raises
    pc,               \* position of the main process
    run,              \* ordinal of the current run of the tool
    file_paths,       \* process_files: the enumerated list
    files_per_output, \* process_files: the chunk size
    futures,          \* number of tasks submitted so far
    task,             \* per task: status, arguments, position in its slice
    fault,            \* an exception is propagating in the main process
    fs,               \* the output directory: per ordinal, existence and data
    prev,             \* fs as the previous run left it
    printed,          \* what the top level printed: "none", "success", "error"
    exit_code,        \* exit status of the process, -1 while it runs
    readlog,          \* paths read by a task of the current run
    openlog           \* <<task, ordinal>> for every output opened in this run

args == <<root_state, under_root, num_files, ignore_patterns, file_extensions,
          output_format, undecodable, unlexable, unwritable>>
vars == <<root_state, under_root, num_files, ignore_patterns, file_extensions,
          output_format, undecodable, unlexable, unwritable, pc, run,
          file_paths, files_per_output, futures, task, fault, fs, prev, printed, exit_code,
          readlog, openlog>>

-----------------------------------------------------------------------------
\* The directory tree under the root, in traversal order.

RootSeg == <<"r">>
OutSeg == <<"o">>

Tree == <<
    [parts |-> <<RootSeg, <<"a", ".", "py">>>>, is_file |-> TRUE],
    [parts |-> <<RootSeg, <<"b", ".", "js">>>>, is_file |-> TRUE],
    [parts |-> <<RootSeg, <<"m">>, <<"c", ".", "js">>>>, is_file |-> TRUE],
    [parts |-> <<RootSeg, <<"n", "m">>, <<"d", ".", "py">>>>, is_file |-> TRUE],
    [parts |-> <<RootSeg, <<".", "py">>>>, is_file |-> TRUE],
    [parts |-> <<RootSeg, <<"e", ".", "py">>>>, is_file |-> FALSE] >>

IgnoreChoices ==
    { {}, {<<"m">>}, {<<"a", ".", "py">>, <<"o">>}, {RootSeg} }

ExtensionChoices ==
    { {<<".", "py">>, <<".", "js">>},
      {<<".", "py">>, <<".", "js">>, <<".", "txt">>, <<".", "md">>},
      {<<".", "js">>},
      {<<>>} }

UndecodableChoices == { {}, {<<RootSeg, <<"b", ".", "js">>>>} }

UnlexableChoices == { {}, {<<RootSeg, <<"n", "m">>, <<"d", ".", "py">>>>} }

UnwritableChoices == { {}, {1} }

Ordinals == 1..MaxN

-----------------------------------------------------------------------------
\* Pure functions.

Min(a, b) == IF a <= b THEN a ELSE b
Max(a, b) == IF a >= b THEN a ELSE b

\* PurePath.suffix: the final component from its last dot on, unless that
\* dot is the first or the last character of the name.
Suffix(parts) ==
    LET name == parts[Len(parts)]
        dots == {j \in 1..Len(name) : name[j] = "."}
    IN IF dots = {} THEN <<>>
       ELSE LET j == CHOOSE d \in dots : \A e \in dots : e <= d
            IN IF 1 < j /\ j < Len(name) THEN SubSeq(name, j, Len(name))
               ELSE <<>>

\* A filter that looks at the file name alone.
NameOnlyIgnore(parts, patterns) ==
    \E pattern \in patterns : parts[Len(parts)] = pattern

should_ignore(parts, patterns) ==
    \E pattern \in patterns : \E k \in 1..Len(parts) : parts[k] = pattern

RECURSIVE get_file_paths(_, _, _)
get_file_paths(entries, patterns, extensions) ==
    IF entries = <<>> THEN <<>>
    ELSE LET file == Head(entries)
             keep == /\ file.is_file
                     /\ Suffix(file.parts) \in extensions
                     /\ ~should_ignore(file.parts, patterns)
         IN (IF keep THEN <<file.parts>> ELSE <<>>)
            \o get_file_paths(Tail(entries), patterns, extensions)

\* Integer division rounding down, for a >= 0 and b # 0.
FloorDiv(a, b) == IF b > 0 THEN a \div b ELSE -((a + (-b) - 1) \div (-b))

\* math.ceil(a / b) for a >= 0 and b # 0.
CeilDiv(a, b) == IF b > 0 THEN (a + b - 1) \div b ELSE -(a \div (-b))

\* seq[lo:hi] read as closed at both ends.
SliceInclusive(seq, lo, hi) ==
    LET n == Len(seq)
        a == Min(Max(lo, 0), n)
        b == Min(Max(hi + 1, 0), n)
    IN IF a >= b THEN <<>> ELSE SubSeq(seq, a + 1, b)

\* seq[lo:hi] of Python, lo and hi counted from 0.
Slice(seq, lo, hi) ==
    LET n == Len(seq)
        clamp(x) == IF x < 0 THEN Max(x + n, 0) ELSE Min(x, n)
        a == clamp(lo)
        b == clamp(hi)
    IN IF a >= b THEN <<>> ELSE SubSeq(seq, a + 1, b)

-----------------------------------------------------------------------------
\* The file system.

OutDirParts == IF under_root THEN <<RootSeg, OutSeg>> ELSE <<OutSeg>>

\* output_dir / f'concatenated_part_{i+1}.{output_format}', ordinal = i + 1.
OutPath(ordinal) ==
    OutDirParts \o <<(<<"concatenated_part_", ToString(ordinal), ".", output_format>>)>>

OutPaths == {OutPath(o) : o \in Ordinals}

OrdinalOf(parts) == CHOOSE o \in Ordinals : OutPath(o) = parts

RECURSIVE OutEntries(_)
OutEntries(o) ==
    IF o > MaxN THEN <<>>
    ELSE (IF fs[o].exists THEN <<[parts |-> OutPath(o), is_file |-> TRUE]>> ELSE <<>>)
         \o OutEntries(o + 1)

\* root_dir.rglob('*'): nothing when the root is no directory or cannot be
\* listed (pathlib returns an empty iterator and swallows PermissionError).
rglob ==
    IF root_state # "ok" THEN <<>>
    ELSE Tree \o (IF under_root
                  THEN <<[parts |-> OutDirParts, is_file |-> FALSE]>> \o OutEntries(1)
                  ELSE <<>>)

Text(parts) == [t |-> "text", p |-> parts, body |-> <<>>]

Readable(parts) == parts \notin undecodable

\* file_path.read_text(): the data of the file at the moment of the call.
\* For an output file that another process is writing this is what its
\* write calls have put there so far.
read_text(parts) ==
    IF parts \in OutPaths THEN fs[OrdinalOf(parts)].data ELSE <<Text(parts)>>

\* What goes wrong in one iteration of the writer's loop: "read" (read_text
\* raised), "highlight" (the lexer or the formatter raised, md only) or "none".
Failure(parts) ==
    IF ~Readable(parts) THEN "read"
    ELSE IF output_format = "md" /\ parts \in unlexable THEN "highlight"
    ELSE "none"

\* A writer that puts the header out before it reads the file.
HeaderFirstChunks(parts, format, failure) ==
    IF format = "md"
    THEN <<[t |-> "md_header", p |-> parts, body |-> <<>>]>>
         \o (IF failure = "none"
             THEN <<[t |-> "md_block", p |-> parts, body |-> read_text(parts)]>>
             ELSE <<>>)
    ELSE <<[t |-> "txt", p |-> parts,
            body |-> IF failure = "none" THEN read_text(parts) ELSE <<>>]>>

\* What one iteration of the writer's loop appends to the output.
WriteChunks(parts, format, failure) ==
    IF failure = "read" THEN <<>>
    ELSE IF format = "md"
    THEN <<[t |-> "md_header", p |-> parts, body |-> <<>>]>>
         \o (IF failure = "highlight" THEN <<>>
             ELSE <<[t |-> "md_block", p |-> parts, body |-> read_text(parts)]>>)
    ELSE <<[t |-> "txt", p |-> parts, body |-> read_text(parts)]>>

NoTask == [st |-> "none", out |-> 0, start |-> 0, end |-> 0, pos |-> 0]
NoFile == [exists |-> FALSE, data |-> <<>>]

-----------------------------------------------------------------------------
\* Initial states: the command line and the environment.  An output
\* directory under the root is considered with a root that exists; the
\* output directory holds no output file before the first run.

Init ==
    /\ root_state \in {"ok", "missing", "unreadable"}
    /\ under_root \in BOOLEAN
    /\ under_root => root_state = "ok"
    /\ num_files \in -1..MaxN
    /\ ignore_patterns \in IgnoreChoices
    /\ file_extensions \in ExtensionChoices
    /\ output_format \in {"txt", "md"}
    /\ undecodable \in UndecodableChoices
    /\ unlexable \in UnlexableChoices
    /\ output_format = "txt" => unlexable = {}
    /\ unwritable \in UnwritableChoices
    /\ pc = "parse"
    /\ run = 1
    /\ file_paths = <<>>
    /\ files_per_output = 0
    /\ futures = 0
    /\ task = [o \in Ordinals |-> NoTask]
    /\ fault = FALSE
    /\ fs = [o \in Ordinals |-> NoFile]
    /\ prev = [o \in Ordinals |-> NoFile]
    /\ printed = "none"
    /\ exit_code = -1
    /\ readlog = {}
    /\ openlog = {}

-----------------------------------------------------------------------------
\* The main process.

\* parse_arguments: argparse converts -n with int and checks nothing else.
ParseArguments ==
    /\ pc = "parse"
    /\ pc' = "mkdir"
    /\ UNCHANGED <<args, run, file_paths, files_per_output, futures, task,
                   fault, fs, prev, printed, exit_code, readlog, openlog>>

\* output_dir.mkdir(parents=True, exist_ok=True), which the environment may
\* refuse.
Mkdir ==
    /\ pc = "mkdir"
    /\ \/ pc' = "enumerate" /\ fault' = FALSE
       \/ pc' = "failed" /\ fault' = TRUE
    /\ UNCHANGED <<args, run, file_paths, files_per_output, futures, task,
                   fs, prev, printed, exit_code, readlog, openlog>>

\* process_files up to the pool: the enumeration and the chunk size.  The
\* division raises ZeroDivisionError for num_files = 0; a negative num_files
\* makes range(num_files) empty, so that the pool is entered and left with
\* no task.
Enumerate ==
    /\ pc = "enumerate"
    /\ file_paths' = get_file_paths(rglob, ignore_patterns, file_extensions)
    /\ IF num_files = 0
       THEN /\ pc' = "failed"
            /\ fault' = TRUE
            /\ UNCHANGED files_per_output
       ELSE /\ files_per_output' = CeilDiv(Len(file_paths'), num_files)
            /\ pc' = IF num_files > 0 THEN "submit" ELSE "shutdown"
            /\ UNCHANGED fault
    /\ UNCHANGED <<args, run, futures, task, fs, prev, printed,
                   exit_code, readlog, openlog>>

\* One iteration of the loop that submits the tasks; i is range's i.
Submit ==
    /\ pc = "submit"
    /\ LET i == futures
       IN /\ task' = [task EXCEPT ![i + 1] =
                        [st |-> "queued",
                         out |-> i + 1,
                         start |-> i * files_per_output,
                         end |-> Min((i + 1) * files_per_output, Len(file_paths)),
                         pos |-> 0]]
          /\ futures' = i + 1
          /\ pc' = IF i + 1 = num_files THEN "join" ELSE "submit"
    /\ UNCHANGED <<args, run, file_paths, files_per_output, fault,
                   fs, prev, printed, exit_code, readlog, openlog>>

Finished(o) == task[o].st \in {"done", "faulted"}

\* The loop over as_completed(futures): future.result() returns for a task
\* that returned, which changes nothing, and raises for a task that raised,
\* which ends the loop.  The loop ends normally once every task returned.
JoinRaise(o) ==
    /\ pc = "join"
    /\ o \in 1..futures
    /\ task[o].st = "faulted"
    /\ fault' = TRUE
    /\ pc' = "shutdown"
    /\ UNCHANGED <<args, run, file_paths, files_per_output, futures, task,
                   fs, prev, printed, exit_code, readlog, openlog>>

JoinDone ==
    /\ pc = "join"
    /\ \A o \in 1..futures : task[o].st = "done"
    /\ pc' = "shutdown"
    /\ UNCHANGED <<args, run, file_paths, files_per_output, futures, task,
                   fault, fs, prev, printed, exit_code, readlog, openlog>>

\* An executor that is left without waiting for its tasks.
NoWait == TRUE

\* The exit of "with ProcessPoolExecutor()": shutdown(wait=True) returns
\* once every submitted task has run to its end.
AllTasksFinished == \A o \in 1..futures : Finished(o)

Shutdown ==
    /\ pc = "shutdown"
    /\ AllTasksFinished
    /\ pc' = IF fault THEN "failed" ELSE "returned"
    /\ UNCHANGED <<args, run, file_paths, files_per_output, futures, task,
                   fault, fs, prev, printed, exit_code, readlog, openlog>>

\* The script's print after process_files returned; the interpreter then
\* ends with status 0.
PrintSuccess ==
    /\ pc = "returned"
    /\ printed' = "success"
    /\ exit_code' = 0
    /\ pc' = "exit"
    /\ UNCHANGED <<args, run, file_paths, files_per_output, futures, task,
                   fault, fs, prev, readlog, openlog>>

\* "except Exception as e: print(...)": the exception is swallowed and the
\* script runs off its end, so the interpreter ends with status 0.
HandleFault ==
    /\ pc = "failed"
    /\ printed' = "error"
    /\ exit_code' = 0
    /\ pc' = "exit"
    /\ UNCHANGED <<args, run, file_paths, files_per_output, futures, task,
                   fault, fs, prev, readlog, openlog>>

\* The tool is started again with the same command line.
Rerun ==
    /\ pc = "exit"
    /\ run < MaxRuns
    /\ run' = run + 1
    /\ prev' = fs
    /\ pc' = "parse"
    /\ file_paths' = <<>>
    /\ files_per_output' = 0
    /\ futures' = 0
    /\ task' = [o \in Ordinals |-> NoTask]
    /\ fault' = FALSE
    /\ printed' = "none"
    /\ exit_code' = -1
    /\ readlog' = {}
    /\ openlog' = {}
    /\ UNCHANGED <<args, fs>>

-----------------------------------------------------------------------------
\* The worker processes.

Running == {o \in Ordinals : task[o].st = "running"}
Queued == {o \in Ordinals : task[o].st = "queued"}

\* A free worker takes the oldest queued task, which opens its output file
\* with mode 'w': the file is created or truncated, or the open raises.
TaskOpen(o) ==
    /\ o \in Queued
    /\ \A q \in Queued : o <= q
    /\ Cardinality(Running) < PoolSize
    /\ IF task[o].out \in unwritable
       THEN /\ task' = [task EXCEPT ![o].st = "faulted"]
            /\ UNCHANGED <<fs, openlog>>
       ELSE /\ task' = [task EXCEPT ![o].st = "running"]
            /\ fs' = [fs EXCEPT ![task[o].out] = [exists |-> TRUE, data |-> <<>>]]
            /\ openlog' = openlog \cup {<<o, task[o].out>>}
    /\ UNCHANGED <<args, pc, run, file_paths, files_per_output, futures,
                   fault, prev, printed, exit_code, readlog>>

MySlice(o) == Slice(file_paths, task[o].start, task[o].end)

\* One iteration of the writer's loop over file_paths[start_index:end_index].
TaskWrite(o) ==
    /\ o \in Running
    /\ task[o].pos < Len(MySlice(o))
    /\ LET file_path == MySlice(o)[task[o].pos + 1]
       IN /\ readlog' = readlog \cup {file_path}
          /\ fs' = [fs EXCEPT ![task[o].out].data =
                       @ \o WriteChunks(file_path, output_format, Failure(file_path))]
    /\ task' = [task EXCEPT ![o].pos = @ + 1]
    /\ UNCHANGED <<args, pc, run, file_paths, files_per_output, futures,
                   fault, prev, printed, exit_code, openlog>>

\* The end of the loop: the output file is closed and the task returns.
TaskClose(o) ==
    /\ o \in Running
    /\ task[o].pos = Len(MySlice(o))
    /\ task' = [task EXCEPT ![o].st = "done"]
    /\ UNCHANGED <<args, pc, run, file_paths, files_per_output, futures,
                   fault, fs, prev, printed, exit_code, readlog, openlog>>

Next ==
    \/ ParseArguments
    \/ Mkdir
    \/ Enumerate
    \/ Submit
    \/ \E o \in Ordinals : JoinRaise(o)
    \/ JoinDone
    \/ Shutdown
    \/ PrintSuccess
    \/ HandleFault
    \/ Rerun
    \/ \E o \in Ordinals : TaskOpen(o)
    \/ \E o \in Ordinals : TaskWrite(o)
    \/ \E o \in Ordinals : TaskClose(o)

Spec == Init /\ [][Next]_vars

-----------------------------------------------------------------------------
\* Vocabulary of the properties.

\* The paths of the entries of an output file, in order: one per header.
RECURSIVE Entries(_)
Entries(data) ==
    IF data = <<>> THEN <<>>
    ELSE (IF Head(data).t \in {"txt", "md_header"} THEN <<Head(data).p>> ELSE <<>>)
         \o Entries(Tail(data))

RECURSIVE ReadableOnly(_)
ReadableOnly(paths) ==
    IF paths = <<>> THEN <<>>
    ELSE (IF Readable(Head(paths)) THEN <<Head(paths)>> ELSE <<>>)
         \o ReadableOnly(Tail(paths))

\* The files at the indices lo .. hi - 1 of the enumerated list, counted from 0.
Partition(lo, hi) == [k \in 1..(hi - lo) |-> file_paths[lo + k]]

AllSubmitted == num_files >= 1 /\ futures = num_files

PassesFilter(parts) ==
    /\ \A k \in 1..Len(parts) : parts[k] \notin ignore_patterns
    /\ Suffix(parts) \in file_extensions

-----------------------------------------------------------------------------
\* C1: for a list of L files and N >= 1, the N ranges are
\* [i*c, min((i+1)*c, L)) with c = ceil(L/N), every index of the list lies in
\* exactly one of them, and a range whose start is not below its end
\* selects no file.
C1_RangesPartition ==
    AllSubmitted =>
        LET L == Len(file_paths)
            N == num_files
            c == files_per_output
        IN /\ c * N >= L /\ (c - 1) * N < L
           /\ \A o \in 1..N :
                 /\ task[o].start = (o - 1) * c
                 /\ task[o].end = Min(o * c, L)
                 /\ task[o].start >= task[o].end => MySlice(o) = <<>>
                 /\ task[o].start < task[o].end =>
                        MySlice(o) = Partition(task[o].start, task[o].end)
           /\ \A k \in 0..(L - 1) :
                 Cardinality({o \in 1..N : task[o].start <= k /\ k < task[o].end}) = 1

\* A run with more ranges than files, the last of which starts beyond the list.
C1_Witness ==
    /\ AllSubmitted
    /\ Len(file_paths) >= 1
    /\ \E o \in 1..num_files : task[o].start > Len(file_paths)
    /\ \E o \in 1..num_files : task[o].end - task[o].start >= 1

\* C2: after a run with N >= 1 in which every enumerated file is readable
\* and no task faults, exactly the output files 1..N exist, file i holds the
\* entries of partition i, each once and in order, and when N > L exactly L
\* of them are non-empty.
C2_OutputsHoldPartitions ==
    ( /\ pc \in {"returned", "exit"}
      /\ AllSubmitted
      /\ \A k \in 1..Len(file_paths) : Readable(file_paths[k])
      /\ \A o \in 1..futures : task[o].st # "faulted" ) =>
        LET L == Len(file_paths)
            N == num_files
            c == CHOOSE x \in 0..L : x * N >= L /\ (x - 1) * N < L
        IN /\ {o \in Ordinals : fs[o].exists} = 1..N
           /\ \A o \in 1..N :
                 Entries(fs[o].data) = Partition((o - 1) * c, Min(o * c, L))
           /\ N > L => Cardinality({o \in 1..N : fs[o].data # <<>>}) = L

\* Three output files for one eligible file: one with content, two empty.
C2_Witness ==
    /\ pc = "exit"
    /\ printed = "success"
    /\ num_files = 3
    /\ Len(file_paths) = 1
    /\ fs[1].data # <<>>
    /\ fs[2].exists /\ fs[2].data = <<>>
    /\ fs[3].exists /\ fs[3].data = <<>>

\* C3: a file appears in an output file only if no segment of its path is
\* in the ignore set and its suffix is in the extension set.
C3_OnlyFilteredFiles ==
    \A o \in Ordinals : \A k \in 1..Len(fs[o].data) :
        PassesFilter(fs[o].data[k].p)

\* Files were written while a file of an accepted extension sat in an
\* ignored directory.
C3_Witness ==
    /\ pc = "exit"
    /\ ignore_patterns = {<<"m">>}
    /\ <<".", "js">> \in file_extensions
    /\ \E o \in Ordinals : \E k \in 1..Len(fs[o].data) :
          fs[o].data[k].p = <<RootSeg, <<"b", ".", "js">>>>

\* C4: in either format, a file whose read fails leaves neither header nor
\* body in the output, the other files of the partition are written in
\* order, and the task does not fault.
C4_ReadFaultSkipsFile ==
    \A o \in 1..futures :
        /\ task[o].st \in {"running", "done"} =>
              /\ Entries(fs[task[o].out].data) =
                    ReadableOnly(SubSeq(MySlice(o), 1, task[o].pos))
              /\ \A k \in 1..Len(fs[task[o].out].data) :
                    Readable(fs[task[o].out].data[k].p)
        /\ task[o].st = "faulted" => task[o].out \in unwritable

\* A task returned after it met an undecodable file and then wrote a later
\* file of the same partition.
C4_Witness ==
    \E o \in 1..futures :
        /\ task[o].st = "done"
        /\ \E j \in 1..Len(MySlice(o)) : \E k \in 1..Len(MySlice(o)) :
              /\ j < k
              /\ ~Readable(MySlice(o)[j])
              /\ Entries(fs[task[o].out].data)[Len(Entries(fs[task[o].out].data))]
                    = MySlice(o)[k]

\* C5: when a task raised, process_files raises to its caller only after
\* every submitted task returned or raised; no task is cancelled, and the
\* output of a task that returned is in place.
C5_FaultAfterAllTasks ==
    ( /\ pc \in {"failed", "exit"}
      /\ \E o \in 1..futures : task[o].st = "faulted" ) =>
        \A o \in 1..futures :
            /\ Finished(o)
            /\ task[o].st = "faulted" => task[o].out \in unwritable
            /\ task[o].st = "done" =>
                  /\ fs[task[o].out].exists
                  /\ Entries(fs[task[o].out].data) = ReadableOnly(MySlice(o))

\* The fault of task 1 reached the caller, and tasks 2 and 3 ran to their end.
C5_Witness ==
    /\ pc = "failed"
    /\ futures = 3
    /\ task[1].st = "faulted"
    /\ task[2].st = "done" /\ fs[2].data # <<>>
    /\ task[3].st = "done"

\* C6: the completion message is printed exactly when no fault occurred,
\* and a caught fault makes the process exit with a status other than 0.
C6_FaultExitsNonZero ==
    (pc = "exit" /\ num_files >= 1) =>
        /\ printed = "success" <=> ~fault
        /\ fault => printed = "error" /\ exit_code # 0

\* C7: a second run with the same command line over an unchanged file
\* system (txt format, decodable inputs) leaves every output file as the
\* first run left it, wherever the output directory lies.
C7_SecondRunIdentical ==
    ( /\ pc = "exit"
      /\ run = 2
      /\ num_files >= 1
      /\ output_format = "txt"
      /\ undecodable = {}
      /\ printed = "success"
      /\ \A o \in 1..num_files : prev[o].exists ) =>
        \A o \in 1..num_files : fs[o] = prev[o]

\* C8: process_files is never reached with a number of output files <= 0.
C8_PositiveCountReachesCore ==
    pc \in {"enumerate", "submit", "join", "shutdown", "returned"} => num_files >= 1

\* C9: with a missing or unreadable root the run ends in a fault, no task is
\* submitted, no output file is created and no completion message printed.
C9_MissingRootIsFatal ==
    (root_state # "ok" /\ num_files >= 1 /\ pc = "exit") =>
        /\ printed = "error"
        /\ futures = 0
        /\ \A o \in Ordinals : ~fs[o].exists

\* C10: every output file is opened by exactly one task, and no file read
\* by a task is an output file of a task of the same run, also when the
\* output directory lies under the root.
C10_NoFileShared ==
    /\ \A o \in Ordinals : Cardinality({e \in openlog : e[2] = o}) <= 1
    /\ readlog \cap {OutPath(task[o].out) : o \in 1..futures} = {}

====
